---- MODULE Spec2Model ----
(***************************************************************************)
(* A model of the search-query parser pipeline:                            *)
(*   parser.ts                 parseSearchInputQuery, stringify            *)
(*   validate-in-expression.ts validateInExpression                        *)
(* Text is a sequence of one-character strings, so that tokenizing,        *)
(* upper-casing, quoting and concatenation are computed character by       *)
(* character.  The stages that parser.ts imports (lexer, first-pass        *)
(* parser, validators, transformer) are either drawn as arbitrary stage    *)
(* outcomes (specification Spec) or modelled from their documented         *)
(* contract (specification SpecText).  Specification SpecStr applies       *)
(* stringify to single expressions, SpecIn applies validateInExpression    *)
(* to single IN nodes, and SpecUi runs the two SearchComponent versions    *)
(* (event handlers and the completion of pending searches).                *)
(***************************************************************************)
EXTENDS Integers, Sequences, FiniteSets, TLC

VARIABLES
  edits,        \* how many times the query text was extended
  input,        \* the query text handed to parseSearchInputQuery
  fieldSchemas, \* the FieldSchema[] handed to parseSearchInputQuery
  env,          \* outcomes of the imported stages during the last call
  result,       \* value returned by the last parseSearchInputQuery call
  calls,        \* the stages the last call invoked, in order
  reparsed,     \* parseSearchInputQuery(stringify(result.expression))
  inExpr,       \* the InExpression handed to validateInExpression
  inPrior,      \* the errors array as handed to validateInExpression
  inErrors,     \* the errors array, which validateInExpression appends to
  strExpr,      \* the Expression handed to stringify
  rendered,     \* the string stringify returned
  component,    \* which SearchComponent is mounted: "sync" or "async"
  ui,           \* the useState values of the mounted SearchComponent
  pending,      \* handleSearchResult calls waiting on searchProducts
  latest        \* the most recent handleSearchResult call and how it ended

\* the variables of the parser pipeline
parserVars ==
  <<edits, input, fieldSchemas, env, result, calls, reparsed, inExpr, inPrior, inErrors>>

\* the variables of a stringify call
strVars == <<strExpr, rendered>>

\* the variables of a mounted SearchComponent
uiVars == <<component, ui, pending, latest>>

vars == <<parserVars, strVars, uiVars>>

----------------------------------------------------------------------------
(* Bounds *)

MaxSpan == 2
MaxErrors == 3
MaxTokens == 2
MaxFieldLen == 2
MaxValues == 2
MaxEdits == 1
MaxTermLen == 3
MaxCalls == 3

----------------------------------------------------------------------------
(* Generic helpers *)

Last(s) == s[Len(s)]

SeqsUpTo(S, n) == UNION {[1..k -> S] : k \in 0..n}

Count(s, e) == Cardinality({i \in DOMAIN s : s[i] = e})

RECURSIVE SumTo(_, _)
SumTo(f, n) == IF n = 0 THEN 0 ELSE f[n] + SumTo(f, n - 1)

----------------------------------------------------------------------------
(* Text: a sequence of characters, each character a string naming one code
   point; ASCII characters name themselves and "U+0131" is the dotless i *)

LowerLetters ==
  <<"a", "b", "c", "d", "e", "f", "g", "h", "i", "j", "k", "l", "m",
    "n", "o", "p", "q", "r", "s", "t", "u", "v", "w", "x", "y", "z">>

UpperLetters ==
  <<"A", "B", "C", "D", "E", "F", "G", "H", "I", "J", "K", "L", "M",
    "N", "O", "P", "Q", "R", "S", "T", "U", "V", "W", "X", "Y", "Z">>

Digits == {"0", "1", "2", "3", "4", "5", "6", "7", "8", "9"}

IsLower(c) == \E i \in 1..26 : LowerLetters[i] = c

IsUpper(c) == \E i \in 1..26 : UpperLetters[i] = c

IsLetter(c) == IsLower(c) \/ IsUpper(c)

IsDigit(c) == c \in Digits

LetterIndex(c, letters) == CHOOSE i \in 1..26 : letters[i] = c

\* String.prototype.toUpperCase on one code point: a-z map to A-Z and the
\* dotless i (U+0131) maps to I; every other character used here is unchanged
UpperChar(c) ==
  IF IsLower(c) THEN UpperLetters[LetterIndex(c, LowerLetters)]
  ELSE IF c = "U+0131" THEN "I"
  ELSE c

\* String.prototype.toLowerCase on one code point
LowerChar(c) ==
  IF IsUpper(c) THEN LowerLetters[LetterIndex(c, UpperLetters)] ELSE c

toUpperCase(t) == [i \in DOMAIN t |-> UpperChar(t[i])]

toLowerCase(t) == [i \in DOMAIN t |-> LowerChar(t[i])]

\* String.prototype.includes for a one-character needle
includes(t, c) == \E i \in DOMAIN t : t[i] = c

----------------------------------------------------------------------------
(* Result values *)

Null == [type |-> "null"]

NoResult == [type |-> "none"]

\* no stringify call is under way
StrIdle == strExpr = Null /\ rendered = <<>>

\* no SearchComponent is mounted
UiIdle == component = "none" /\ ui = Null /\ pending = {} /\ latest = Null

SearchQuery(expression) ==
  [type |-> "SEARCH_QUERY", expression |-> expression]

SearchQueryError(errors) ==
  [type |-> "SEARCH_QUERY_ERROR", expression |-> Null, errors |-> errors]

----------------------------------------------------------------------------
(* Token streams (lexer.ts is imported by parser.ts) *)

createStream(tokens) == [tokens |-> tokens, position |-> 1]

currentToken(stream) ==
  IF stream.position <= Len(stream.tokens)
    THEN stream.tokens[stream.position]
    ELSE Last(stream.tokens)

----------------------------------------------------------------------------
(* parseSearchInputQuery, parser.ts:129-208 *)

IsEmptyTokenList(stream) == Len(stream.tokens) = 0

\* parser.ts:137 the input holds no token
IsEndOfInput(stream) == currentToken(stream).type = "EOF"

\* parser.ts:144 the stream is not fully consumed
HasLeftoverToken(finalToken) == finalToken.type /= "EOF"

LeftoverErrorFirstToken(tokens, finalToken) ==
  [message |-> "Unexpected \")\"",
   position |-> tokens[1].position,
   length |-> tokens[1].length]

\* parser.ts:145-149 the object thrown for a leftover token
LeftoverError(tokens, finalToken) ==
  [message |-> "Unexpected \")\"",
   position |-> finalToken.position,
   length |-> finalToken.length]

SchemaGateAlways(allowedFields) == TRUE

\* parser.ts:157 the schema validator runs only for a non-empty schema list
SchemaGate(allowedFields) == Len(allowedFields) > 0

\* parser.ts:171 and 174: `${position}-${length}`; for integer position and
\* length the rendered key determines the pair, so the key is the pair
ErrorKey(e) == <<e.position, e.length>>

\* parser.ts:170-172
FieldErrorKeys(fieldErrors) ==
  [i \in DOMAIN fieldErrors |-> ErrorKey(fieldErrors[i])]

\* parser.ts:173-175
ErrorsToRemove(errors, fieldErrors) ==
  LET keys == FieldErrorKeys(fieldErrors)
      hasKey(e) == \E i \in DOMAIN keys : keys[i] = ErrorKey(e)
  IN  SelectSeq(errors, hasKey)

FieldErrorsUnfiltered(errors, fieldErrors) == fieldErrors

\* parser.ts:176-181
FieldErrorsFiltered(errors, fieldErrors) ==
  LET errorsToRemove == ErrorsToRemove(errors, fieldErrors)
      keep(f) == ~ \E i \in DOMAIN errorsToRemove :
                     /\ errorsToRemove[i].position = f.position
                     /\ errorsToRemove[i].length = f.length
  IN  SelectSeq(fieldErrors, keep)

\* Array.prototype.sort is stable: an element is placed after every element
\* already placed whose position is not greater
InsertByPosition(sorted, e) ==
  LET n == Cardinality({i \in DOMAIN sorted : sorted[i].position <= e.position})
  IN  SubSeq(sorted, 1, n) \o <<e>> \o SubSeq(sorted, n + 1, Len(sorted))

InsertBeforeEqual(sorted, e) ==
  LET n == Cardinality({i \in DOMAIN sorted : sorted[i].position < e.position})
  IN  SubSeq(sorted, 1, n) \o <<e>> \o SubSeq(sorted, n + 1, Len(sorted))

RECURSIVE SortFrom(_, _, _)
SortFrom(list, i, sorted) ==
  IF i > Len(list) THEN sorted
  ELSE SortFrom(list, i + 1, InsertByPosition(sorted, list[i]))

RECURSIVE SortFromUnstable(_, _, _)
SortFromUnstable(list, i, sorted) ==
  IF i > Len(list) THEN sorted
  ELSE SortFromUnstable(list, i + 1, InsertBeforeEqual(sorted, list[i]))

SortByPositionUnstable(list) == SortFromUnstable(list, 1, <<>>)

\* parser.ts:183-185 .sort((a, b) => a.position - b.position)
SortByPosition(list) == SortFrom(list, 1, <<>>)

\* parser.ts:170-185
AllErrors(errors, fieldErrors) ==
  SortByPosition(errors \o FieldErrorsFiltered(errors, fieldErrors))

HasErrorsMoreThanOne(allErrors) == Len(allErrors) > 1

\* parser.ts:187
HasErrors(allErrors) == Len(allErrors) > 0

CaughtEmpty(error) == SearchQueryError(<<>>)

\* parser.ts:201-207 the catch block
Caught(error) == SearchQueryError(<<error>>)

\* The outcome of one imported stage: it threw `error`, or returned `value`
Threw(error) == [throws |-> TRUE, error |-> error, value |-> Null]

Returned(value) == [throws |-> FALSE, error |-> Null, value |-> value]

NotReached == Returned(Null)

\* the outcomes of the five imported stages during one call
Run(tok, prs, val, fld, xf) ==
  [tokenize |-> tok, parse |-> prs, validate |-> val, fields |-> fld,
   transform |-> xf]

\* parser.ts:155 fieldSchemas.map((s) => s.name.toLowerCase())
AllowedFields(schemas) == [i \in DOMAIN schemas |-> toLowerCase(schemas[i].name)]

\* parser.ts:133-207.  `run` holds the outcome of each imported stage for this
\* input: run.tokenize (134), run.parse (141, value = [result, stream]),
\* run.validate (152), run.fields (162-167), run.transform (198).
\* The value is [ret |-> the returned object, calls |-> the stages invoked].
ParseSearchInputQuery(schemas, run) ==
  IF run.tokenize.throws
    THEN [ret |-> Caught(run.tokenize.error), calls |-> <<"tokenize">>]
  ELSE LET tokens == run.tokenize.value
           stream == createStream(tokens)
  IN
  IF IsEndOfInput(stream)
    THEN [ret |-> SearchQuery(Null), calls |-> <<"tokenize">>]
  ELSE IF run.parse.throws
    THEN [ret |-> Caught(run.parse.error),
          calls |-> <<"tokenize", "parseExpression">>]
  ELSE LET finalToken == currentToken(run.parse.value.stream) IN
  IF HasLeftoverToken(finalToken)
    THEN [ret |-> Caught(LeftoverError(tokens, finalToken)),
          calls |-> <<"tokenize", "parseExpression">>]
  ELSE IF run.validate.throws
    THEN [ret |-> Caught(run.validate.error),
          calls |-> <<"tokenize", "parseExpression", "validateSearchQuery">>]
  ELSE LET errors == run.validate.value
           gate == SchemaGate(AllowedFields(schemas))
           called == <<"tokenize", "parseExpression", "validateSearchQuery">>
                       \o (IF gate THEN <<"validateExpressionFields">> ELSE <<>>)
  IN
  IF gate /\ run.fields.throws
    THEN [ret |-> Caught(run.fields.error), calls |-> called]
  ELSE LET fieldErrors == IF gate THEN run.fields.value ELSE <<>>
           allErrors == AllErrors(errors, fieldErrors)
  IN
  IF HasErrors(allErrors)
    THEN [ret |-> SearchQueryError(allErrors), calls |-> called]
  ELSE IF run.transform.throws
    THEN [ret |-> Caught(run.transform.error),
          calls |-> called \o <<"transformToExpression">>]
  ELSE [ret |-> SearchQuery(run.transform.value),
        calls |-> called \o <<"transformToExpression">>]

----------------------------------------------------------------------------
(* validateInExpression, validate-in-expression.ts:4-40 *)

\* validator.ts reservedWords
reservedWords == {<<"A", "N", "D">>, <<"O", "R">>, <<"N", "O", "T">>, <<"I", "N">>}

\* validate-in-expression.ts:9 /^[a-zA-Z][a-zA-Z0-9_-]*$/.test(field)
MatchesFieldPattern(field) ==
  /\ Len(field) >= 1
  /\ IsLetter(field[1])
  /\ \A i \in 2..Len(field) :
       IsLetter(field[i]) \/ IsDigit(field[i]) \/ field[i] = "_" \/ field[i] = "-"

IsReservedWordExactCase(field) == field \in reservedWords

\* validate-in-expression.ts:19 reservedWords.has(expr.field.toUpperCase())
IsReservedWord(field) == toUpperCase(field) \in reservedWords

\* validate-in-expression.ts:10-15
InvalidFieldChars(expr) ==
  [message |-> <<"Invalid characters in field name">>,
   code |-> "INVALID_FIELD_CHARS",
   position |-> expr.position,
   length |-> Len(expr.field)]

\* validate-in-expression.ts:20-26
ReservedWordAsField(expr) ==
  [message |-> <<expr.field, " is a reserved word">>,
   code |-> "RESERVED_WORD_AS_FIELD",
   value |-> expr.field,
   position |-> expr.position,
   length |-> Len(expr.field)]

\* validate-in-expression.ts:32-37, index counted from 0
InvalidInValue(expr, index, value) ==
  [message |-> <<"Invalid character in IN value">>,
   code |-> "INVALID_IN_VALUE",
   position |-> expr.position + Len(expr.field) + 3 + index * (Len(value) + 1),
   length |-> Len(value)]

\* validate-in-expression.ts:30-39 expr.values.forEach((value, index) => ...)
RECURSIVE InValueErrorsFrom(_, _)
InValueErrorsFrom(expr, i) ==
  IF i > Len(expr.values) THEN <<>>
  ELSE (IF includes(expr.values[i], ",")
          THEN <<InvalidInValue(expr, i - 1, expr.values[i])>>
          ELSE <<>>)
       \o InValueErrorsFrom(expr, i + 1)

\* validate-in-expression.ts:4-40: the errors array after the call
ValidateInExpression(expr, errors) ==
  errors
    \o (IF ~MatchesFieldPattern(expr.field) THEN <<InvalidFieldChars(expr)>> ELSE <<>>)
    \o (IF IsReservedWord(expr.field) THEN <<ReservedWordAsField(expr)>> ELSE <<>>)
    \o InValueErrorsFrom(expr, 1)

----------------------------------------------------------------------------
(* The tokenizer (lexer.ts), from its contract: whitespace separates tokens
   and is discarded, positions index the input, a quoted token holds the text
   between its quotes, the token sequence always ends with EOF *)

IsSpace(c) == c \in {" ", "\t", "\n"}

At(s, i) == IF i <= Len(s) THEN s[i] ELSE Last(s)

CharAt(text, i) == IF i >= 1 /\ i <= Len(text) THEN text[i] ELSE "EOF"

IsWordChar(text, i) ==
  LET c == text[i] IN
    /\ ~IsSpace(c)
    /\ c \notin {"(", ")", ",", ":", "\"", ">", "<"}
    /\ ~(c = "." /\ CharAt(text, i + 1) = ".")

\* the index after the run of word characters that starts at i
RECURSIVE WordEnd(_, _)
WordEnd(text, i) ==
  IF i > Len(text) \/ ~IsWordChar(text, i) THEN i ELSE WordEnd(text, i + 1)

\* the index of the first quote at or after i, or 0
RECURSIVE QuoteClose(_, _)
QuoteClose(text, i) ==
  IF i > Len(text) THEN 0
  ELSE IF text[i] = "\"" THEN i
  ELSE QuoteClose(text, i + 1)

Token(type, value, i, length) ==
  [type |-> type, value |-> value, position |-> i - 1, length |-> length]

\* -?\d+(\.\d+)?
IsNumberText(w) ==
  LET body == IF Len(w) > 0 /\ w[1] = "-" THEN Tail(w) ELSE w
      dots == {i \in DOMAIN body : body[i] = "."}
  IN  /\ Len(body) > 0
      /\ \A i \in DOMAIN body : IsDigit(body[i]) \/ body[i] = "."
      /\ Cardinality(dots) <= 1
      /\ \A i \in dots : i > 1 /\ i < Len(body)

\* \d{4}-\d{2}-\d{2}
IsDateText(w) ==
  /\ Len(w) = 10
  /\ \A i \in DOMAIN w : IF i \in {5, 8} THEN w[i] = "-" ELSE IsDigit(w[i])

KeywordType(w) ==
  LET u == toUpperCase(w) IN
    IF u = <<"A", "N", "D">> THEN "AND"
    ELSE IF u = <<"O", "R">> THEN "OR"
    ELSE IF u = <<"N", "O", "T">> THEN "NOT"
    ELSE "IN"

ValueType(w) ==
  IF Last(w) = "*" THEN "WILDCARD"
  ELSE IF IsNumberText(w) THEN "NUMBER"
  ELSE IF IsDateText(w) THEN "DATE"
  ELSE "VALUE"

\* the kind of the word w that ends before index e, after a token of kind prev
WordType(text, w, e, prev) ==
  IF CharAt(text, e) = ":" THEN "FIELD"
  ELSE IF prev = "COLON"
    THEN IF toUpperCase(w) = <<"I", "N">> /\ CharAt(text, e) = "("
           THEN "IN" ELSE ValueType(w)
  ELSE IF prev = "RANGE_OP" THEN ValueType(w)
  ELSE IF toUpperCase(w) \in reservedWords THEN KeywordType(w)
  ELSE IF Last(w) = "*" THEN "WILDCARD"
  ELSE IF IsNumberText(w) THEN "NUMBER"
  ELSE IF IsDateText(w) THEN "DATE"
  ELSE "IDENT"

RECURSIVE TokensFrom(_, _, _)
TokensFrom(text, i, prev) ==
  IF i > Len(text) THEN <<Token("EOF", <<>>, i, 0)>>
  ELSE LET c == text[i] IN
  IF IsSpace(c) THEN TokensFrom(text, i + 1, prev)
  ELSE IF c = "(" THEN <<Token("LPAREN", <<c>>, i, 1)>> \o TokensFrom(text, i + 1, "LPAREN")
  ELSE IF c = ")" THEN <<Token("RPAREN", <<c>>, i, 1)>> \o TokensFrom(text, i + 1, "RPAREN")
  ELSE IF c = "," THEN <<Token("COMMA", <<c>>, i, 1)>> \o TokensFrom(text, i + 1, "COMMA")
  ELSE IF c = ":" THEN <<Token("COLON", <<c>>, i, 1)>> \o TokensFrom(text, i + 1, "COLON")
  ELSE IF c = "\""
    THEN LET j == QuoteClose(text, i + 1) IN
           IF j = 0
             THEN <<Token("UNTERMINATED", SubSeq(text, i + 1, Len(text)), i,
                          Len(text) - i + 1),
                    Token("EOF", <<>>, Len(text) + 1, 0)>>
             ELSE <<Token("QUOTED", SubSeq(text, i + 1, j - 1), i, j - i + 1)>>
                    \o TokensFrom(text, j + 1, "QUOTED")
  ELSE IF c \in {">", "<"}
    THEN IF CharAt(text, i + 1) = "="
           THEN <<Token("RANGE_OP", <<c, "=">>, i, 2)>> \o TokensFrom(text, i + 2, "RANGE_OP")
           ELSE <<Token("RANGE_OP", <<c>>, i, 1)>> \o TokensFrom(text, i + 1, "RANGE_OP")
  ELSE IF c = "." /\ CharAt(text, i + 1) = "."
    THEN <<Token("RANGE_OP", <<".", ".">>, i, 2)>> \o TokensFrom(text, i + 2, "RANGE_OP")
  ELSE LET e == WordEnd(text, i)
           w == SubSeq(text, i, e - 1)
           type == WordType(text, w, e, prev)
       IN  <<Token(type, w, i, e - i)>> \o TokensFrom(text, e, type)

tokenize(text) == TokensFrom(text, 1, "START")

----------------------------------------------------------------------------
(* The syntax parser (first-pass-parser.ts), from the grammar
     expr := or;  or := and (OR and)*;  and := unary (AND? unary)*
     unary := NOT unary | atom
     atom := '(' expr ')' | field ':' rangeVal | field ':' inList
           | field ':' value | wildcard | quotedTerm | bareTerm
   It fails on the first token that does not fit, with one diagnostic at that
   token. *)

Ok(node, pos) == [ok |-> TRUE, node |-> node, pos |-> pos, error |-> Null]

Fail(token) ==
  [ok |-> FALSE, node |-> Null, pos |-> 0,
   error |-> [message |-> "Unexpected token", code |-> "SYNTAX_ERROR",
              position |-> token.position, length |-> token.length]]

EndOf(node) == node.position + node.length

Binary(type, left, right) ==
  [type |-> type, left |-> left, right |-> right,
   position |-> left.position, length |-> EndOf(right) - left.position]

\* the operator a range token spells
Str(text) ==
  IF text = <<">", "=">> THEN ">="
  ELSE IF text = <<"<", "=">> THEN "<="
  ELSE IF text = <<">">> THEN ">"
  ELSE "<"

IsLiteral(token) == token.type \in {"QUOTED", "NUMBER", "DATE", "VALUE"}

StartsUnary(token) ==
  token.type \in {"NOT", "LPAREN", "FIELD", "COLON", "WILDCARD", "QUOTED",
                  "UNTERMINATED", "RANGE_OP", "IDENT", "NUMBER", "DATE", "VALUE"}

\* value (',' value)* ')' of an IN list; p is at a value
RECURSIVE ParseInValues(_, _, _)
ParseInValues(ts, p, values) ==
  LET v == At(ts, p)
      sep == At(ts, p + 1)
  IN  IF ~(IsLiteral(v) \/ v.type = "IDENT") THEN Fail(v)
      ELSE IF sep.type = "COMMA" THEN ParseInValues(ts, p + 2, Append(values, v.value))
      ELSE IF sep.type = "RPAREN"
        THEN Ok([values |-> Append(values, v.value), end |-> EndOf(sep)], p + 2)
      ELSE Fail(sep)

\* field ':' ... ; p is at the FIELD token, which a COLON follows
ParseFieldAtom(ts, p) ==
  LET f == At(ts, p)
      a == At(ts, p + 2)
      b == At(ts, p + 3)
      c == At(ts, p + 4)
      field(type, end) ==
        [type |-> type, field |-> f.value, position |-> f.position,
         length |-> end - f.position]
  IN
  IF a.type = "IN"
    THEN IF b.type /= "LPAREN" THEN Fail(b)
         ELSE LET vs == ParseInValues(ts, p + 4, <<>>) IN
                IF ~vs.ok THEN vs
                ELSE Ok([type |-> "IN", field |-> f.value,
                         values |-> vs.node.values, position |-> f.position,
                         length |-> vs.node.end - f.position], vs.pos)
  ELSE IF a.type = "RANGE_OP"
    THEN IF a.value = <<".", ".">> THEN Fail(a)
         ELSE IF ~IsLiteral(b) THEN Fail(b)
         ELSE Ok([type |-> "RANGE", field |-> f.value, operator |-> Str(a.value),
                  value |-> b.value, position |-> f.position,
                  length |-> EndOf(b) - f.position], p + 4)
  ELSE IF IsLiteral(a) /\ b.type = "RANGE_OP" /\ b.value = <<".", ".">>
    THEN IF ~IsLiteral(c) THEN Fail(c)
         ELSE Ok([type |-> "RANGE", field |-> f.value, operator |-> "BETWEEN",
                  value |-> a.value, value2 |-> c.value, position |-> f.position,
                  length |-> EndOf(c) - f.position], p + 5)
  ELSE IF IsLiteral(a) \/ a.type = "WILDCARD"
    THEN Ok([type |-> "FIELD_VALUE", field |-> f.value, value |-> a.value,
             position |-> f.position, length |-> EndOf(a) - f.position], p + 3)
  ELSE Fail(a)

RECURSIVE ParseOr(_, _)
RECURSIVE ParseOrRest(_, _, _)
RECURSIVE ParseAnd(_, _)
RECURSIVE ParseAndRest(_, _, _)
RECURSIVE ParseUnary(_, _)
RECURSIVE ParseAtom(_, _)

ParseAtom(ts, p) ==
  LET t == At(ts, p) IN
  IF t.type = "LPAREN"
    THEN LET e == ParseOr(ts, p + 1) IN
           IF ~e.ok THEN e
           ELSE IF At(ts, e.pos).type /= "RPAREN" THEN Fail(At(ts, e.pos))
           ELSE Ok(e.node, e.pos + 1)
  ELSE IF t.type = "FIELD" THEN ParseFieldAtom(ts, p)
  ELSE IF t.type = "WILDCARD"
    THEN Ok([type |-> "WILDCARD", prefix |-> SubSeq(t.value, 1, Len(t.value) - 1),
             quoted |-> FALSE, position |-> t.position, length |-> t.length], p + 1)
  ELSE IF t.type = "QUOTED" /\ Len(t.value) > 0 /\ Last(t.value) = "*"
    THEN Ok([type |-> "WILDCARD", prefix |-> SubSeq(t.value, 1, Len(t.value) - 1),
             quoted |-> TRUE, position |-> t.position, length |-> t.length], p + 1)
  ELSE IF t.type \in {"QUOTED", "IDENT", "NUMBER", "DATE", "VALUE"}
    THEN Ok([type |-> "SEARCH_TERM", value |-> t.value,
             position |-> t.position, length |-> t.length], p + 1)
  ELSE Fail(t)

ParseUnary(ts, p) ==
  LET t == At(ts, p) IN
  IF t.type = "NOT"
    THEN LET e == ParseUnary(ts, p + 1) IN
           IF ~e.ok THEN e
           ELSE Ok([type |-> "NOT", expression |-> e.node, position |-> t.position,
                    length |-> EndOf(e.node) - t.position], e.pos)
  ELSE ParseAtom(ts, p)

ParseAndRest(ts, left, p) ==
  LET t == At(ts, p) IN
  IF t.type = "AND" \/ StartsUnary(t)
    THEN LET r == ParseUnary(ts, IF t.type = "AND" THEN p + 1 ELSE p) IN
           IF ~r.ok THEN r
           ELSE ParseAndRest(ts, Binary("AND", left, r.node), r.pos)
  ELSE Ok(left, p)

ParseAnd(ts, p) ==
  LET l == ParseUnary(ts, p) IN
    IF ~l.ok THEN l ELSE ParseAndRest(ts, l.node, l.pos)

ParseOrRest(ts, left, p) ==
  IF At(ts, p).type = "OR"
    THEN LET r == ParseAnd(ts, p + 1) IN
           IF ~r.ok THEN r
           ELSE ParseOrRest(ts, Binary("OR", left, r.node), r.pos)
  ELSE Ok(left, p)

ParseOr(ts, p) ==
  LET l == ParseAnd(ts, p) IN
    IF ~l.ok THEN l ELSE ParseOrRest(ts, l.node, l.pos)

\* parseExpression(stream): it throws, or returns the tree and the stream
\* positioned after the tokens it consumed
parseExpression(stream) ==
  LET r == ParseOr(stream.tokens, stream.position) IN
    IF r.ok
      THEN Returned([result |-> r.node,
                     stream |-> [tokens |-> stream.tokens, position |-> r.pos]])
      ELSE Threw(r.error)

----------------------------------------------------------------------------
(* The structural validator (validator.ts), from its contract: it walks every
   node, checks the field of every FIELD_VALUE and RANGE node and hands every
   IN node to validateInExpression *)

FieldNameErrors(node) ==
  (IF ~MatchesFieldPattern(node.field) THEN <<InvalidFieldChars(node)>> ELSE <<>>)
    \o (IF IsReservedWord(node.field) THEN <<ReservedWordAsField(node)>> ELSE <<>>)

RECURSIVE WalkExpression(_, _)
WalkExpression(node, errors) ==
  IF node.type \in {"AND", "OR"}
    THEN WalkExpression(node.right, WalkExpression(node.left, errors))
  ELSE IF node.type = "NOT" THEN WalkExpression(node.expression, errors)
  ELSE IF node.type = "IN" THEN ValidateInExpression(node, errors)
  ELSE IF node.type \in {"FIELD_VALUE", "RANGE"} THEN errors \o FieldNameErrors(node)
  ELSE errors

validateSearchQuery(tree) == WalkExpression(tree, <<>>)

(* The schema validator (validate-expression-fields.ts), from its contract:
   a field absent from the schema is an unknown field; a range on a field
   that is not a number or a date, and a value of a number field that is not
   a number, are type mismatches *)

SchemaFor(schemas, field) ==
  {i \in DOMAIN schemas : toLowerCase(schemas[i].name) = toLowerCase(field)}

NodeValues(node) ==
  IF node.type = "IN" THEN node.values
  ELSE IF node.type = "RANGE" /\ node.operator = "BETWEEN"
    THEN <<node.value, node.value2>>
  ELSE <<node.value>>

FieldErrors(node, schemas) ==
  LET known == SchemaFor(schemas, node.field) IN
    IF known = {}
      THEN <<[message |-> <<"Invalid field">>, code |-> "UNKNOWN_FIELD",
              position |-> node.position, length |-> Len(node.field)]>>
    ELSE LET type == schemas[CHOOSE i \in known : TRUE].type
             values == NodeValues(node)
         IN  IF \/ node.type = "RANGE" /\ type \in {"string", "boolean"}
                \/ type = "number" /\ \E i \in DOMAIN values : ~IsNumberText(values[i])
               THEN <<[message |-> <<"Invalid value">>, code |-> "TYPE_MISMATCH",
                       position |-> node.position + Len(node.field) + 1,
                       length |-> node.length - Len(node.field) - 1]>>
               ELSE <<>>

RECURSIVE validateExpressionFields(_, _, _)
validateExpressionFields(node, schemas, errors) ==
  IF node.type \in {"AND", "OR"}
    THEN validateExpressionFields(node.right, schemas,
           validateExpressionFields(node.left, schemas, errors))
  ELSE IF node.type = "NOT"
    THEN validateExpressionFields(node.expression, schemas, errors)
  ELSE IF node.type \in {"FIELD_VALUE", "RANGE", "IN"}
    THEN errors \o FieldErrors(node, schemas)
  ELSE errors

(* The semantic transformer (transform-to-expression.ts): one Expression node
   per syntax-tree node, the field and the values wrapped as the Field and
   Value records of parser.ts:29-37 *)

FieldOf(node) ==
  [type |-> "FIELD", value |-> node.field, position |-> node.position,
   length |-> Len(node.field)]

ValueOf(node, text) ==
  [type |-> "VALUE", value |-> text,
   position |-> node.position + Len(node.field) + 1, length |-> Len(text)]

RECURSIVE transformToExpression(_)
transformToExpression(node) ==
  IF node.type \in {"AND", "OR"}
    THEN [type |-> node.type, left |-> transformToExpression(node.left),
          right |-> transformToExpression(node.right),
          position |-> node.position, length |-> node.length]
  ELSE IF node.type = "NOT"
    THEN [type |-> "NOT", expression |-> transformToExpression(node.expression),
          position |-> node.position, length |-> node.length]
  ELSE IF node.type = "FIELD_VALUE"
    THEN [type |-> "FIELD_VALUE", field |-> FieldOf(node),
          value |-> ValueOf(node, node.value)]
  ELSE IF node.type = "RANGE"
    THEN IF node.operator = "BETWEEN"
           THEN [type |-> "RANGE", field |-> FieldOf(node), operator |-> "BETWEEN",
                 value |-> ValueOf(node, node.value),
                 value2 |-> ValueOf(node, node.value2),
                 position |-> node.position, length |-> node.length]
           ELSE [type |-> "RANGE", field |-> FieldOf(node),
                 operator |-> node.operator, value |-> ValueOf(node, node.value),
                 position |-> node.position, length |-> node.length]
  ELSE IF node.type = "IN"
    THEN [type |-> "IN", field |-> FieldOf(node),
          values |-> [i \in DOMAIN node.values |-> ValueOf(node, node.values[i])],
          position |-> node.position, length |-> node.length]
  ELSE node

----------------------------------------------------------------------------
(* stringify, parser.ts:100-126 *)

\* the characters of a string literal of the source
Chars(op) ==
  IF op = ">=" THEN <<">", "=">>
  ELSE IF op = "<=" THEN <<"<", "=">>
  ELSE IF op = ">" THEN <<">">>
  ELSE IF op = "<" THEN <<"<">>
  ELSE IF op = " AND " THEN <<" ", "A", "N", "D", " ">>
  ELSE IF op = " OR " THEN <<" ", "O", "R", " ">>
  ELSE IF op = "NOT (" THEN <<"N", "O", "T", " ", "(">>
  ELSE IF op = ":IN(" THEN <<":", "I", "N", "(">>
  ELSE <<op>>

\* parser.ts:103 and 121: `"${value}"` when the value includes a space
QuoteIfSpace(value) ==
  IF includes(value, " ") THEN <<"\"">> \o value \o <<"\"">> ELSE value

\* parser.ts:120-122 values.map(...).join(",")
RECURSIVE JoinValues(_, _)
JoinValues(values, i) ==
  IF i > Len(values) THEN <<>>
  ELSE (IF i > 1 THEN <<",">> ELSE <<>>)
         \o QuoteIfSpace(values[i].value) \o JoinValues(values, i + 1)

RECURSIVE stringify(_)
stringify(expr) ==
  IF expr.type = "SEARCH_TERM" THEN QuoteIfSpace(expr.value)
  ELSE IF expr.type = "WILDCARD"
    THEN IF expr.quoted THEN <<"\"">> \o expr.prefix \o <<"*", "\"">>
         ELSE expr.prefix \o <<"*">>
  ELSE IF expr.type = "FIELD_VALUE"
    THEN expr.field.value \o <<":">> \o expr.value.value
  ELSE IF expr.type = "RANGE"
    THEN IF expr.operator = "BETWEEN"
           THEN expr.field.value \o <<":">> \o expr.value.value \o <<".", ".">>
                  \o expr.value2.value
           ELSE expr.field.value \o <<":">> \o Chars(expr.operator)
                  \o expr.value.value
  ELSE IF expr.type = "NOT"
    THEN Chars("NOT (") \o stringify(expr.expression) \o <<")">>
  ELSE IF expr.type = "AND"
    THEN <<"(">> \o stringify(expr.left) \o Chars(" AND ")
           \o stringify(expr.right) \o <<")">>
  ELSE IF expr.type = "OR"
    THEN <<"(">> \o stringify(expr.left) \o Chars(" OR ")
           \o stringify(expr.right) \o <<")">>
  ELSE expr.field.value \o Chars(":IN(") \o JoinValues(expr.values, 1) \o <<")">>

----------------------------------------------------------------------------
(* parseSearchInputQuery on a text: every imported stage computed *)

StagesOfParse(tokens, parsed, schemas) ==
  IF parsed.throws
    THEN Run(Returned(tokens), parsed, NotReached, NotReached, NotReached)
    ELSE Run(Returned(tokens), parsed,
             Returned(validateSearchQuery(parsed.value.result)),
             Returned(validateExpressionFields(parsed.value.result, schemas, <<>>)),
             Returned(transformToExpression(parsed.value.result)))

----------------------------------------------------------------------------
(* Specification Spec: parseSearchInputQuery over arbitrary outcomes of the
   stages it imports.  Every stage may throw; the validators may return any
   list of diagnostics. *)

\* (position, length) pairs inside a text of MaxSpan characters
Spans == {sp \in (0..MaxSpan) \X (1..MaxSpan) : sp[1] + sp[2] <= MaxSpan}

\* a diagnostic of the structural validator at a span, as
\* validate-in-expression.ts:10-15 builds it
StructuralError(sp) ==
  InvalidFieldChars([position |-> sp[1], field |-> [i \in 1..sp[2] |-> "!"]])

SchemaError(sp) ==
  [message |-> <<"Invalid field">>, code |-> "UNKNOWN_FIELD",
   position |-> sp[1], length |-> sp[2]]

SyntaxError(sp) ==
  [message |-> "Unexpected token", code |-> "SYNTAX_ERROR",
   position |-> sp[1], length |-> sp[2]]

StructuralErrors == {StructuralError(sp) : sp \in Spans}

SchemaErrors == {SchemaError(sp) : sp \in Spans}

Thrown == {SyntaxError(sp) : sp \in Spans}

\* Token streams: up to MaxTokens tokens laid out back to back, then EOF
TokenLength(type) == IF type = "STRING" THEN 2 ELSE 1

TokensOf(types) ==
  LET len == [i \in DOMAIN types |-> TokenLength(types[i])]
      n == Len(types)
  IN  [i \in 1..(n + 1) |->
         IF i <= n
           THEN [type |-> types[i],
                 position |-> SumTo(len, i - 1), length |-> len[i]]
           ELSE [type |-> "EOF", position |-> SumTo(len, n), length |-> 0]]

TokenStreams == {TokensOf(types) : types \in SeqsUpTo({"STRING", "RPAREN"}, MaxTokens)}

OneToken == TokensOf(<<"STRING">>)

SomeTree == [type |-> "STRING", value |-> <<"a", "b">>, position |-> 0, length |-> 2]

SomeExpressions ==
  {[type |-> "SEARCH_TERM", value |-> <<"a", "b">>, position |-> 0, length |-> 2]}

SchemaLists == {<<>>, <<[name |-> <<"T", "i">>, type |-> "string"]>>}

Parsed(tokens, consumed) ==
  Returned([result |-> SomeTree,
            stream |-> [tokens |-> tokens, position |-> consumed + 1]])

NonEmptyStreams == TokenStreams \ {TokensOf(<<>>)}

\* the runs that end before the validators are reached
EarlyRun(run) ==
  \/ \E e \in Thrown :
       run = Run(Threw(e), NotReached, NotReached, NotReached, NotReached)
  \/ run = Run(Returned(TokensOf(<<>>)), NotReached, NotReached, NotReached,
               NotReached)
  \/ \E ts \in NonEmptyStreams, e \in Thrown :
       run = Run(Returned(ts), Threw(e), NotReached, NotReached, NotReached)
  \/ \E ts \in NonEmptyStreams : \E n \in 1..(Len(ts) - 2) :
       run = Run(Returned(ts), Parsed(ts, n), NotReached, NotReached, NotReached)

\* the runs in which the whole token stream was parsed; the validators
\* return at most MaxErrors diagnostics between them
ValidatedRun(run) ==
  \/ \E ts \in NonEmptyStreams, e \in Thrown :
       run = Run(Returned(ts), Parsed(ts, Len(ts) - 1), Threw(e), NotReached,
                 NotReached)
  \/ \E S \in SeqsUpTo(StructuralErrors, MaxErrors), e \in Thrown :
       run = Run(Returned(OneToken), Parsed(OneToken, 1), Returned(S), Threw(e),
                 NotReached)
  \/ \E S \in SeqsUpTo(StructuralErrors, MaxErrors) :
       \E F \in SeqsUpTo(SchemaErrors, MaxErrors - Len(S)) :
         run = Run(Returned(OneToken), Parsed(OneToken, 1), Returned(S),
                   Returned(F), NotReached)
  \/ \E ts \in NonEmptyStreams, F \in SeqsUpTo(SchemaErrors, 1) :
       \E xf \in {Threw(e) : e \in Thrown} \cup {Returned(x) : x \in SomeExpressions} :
         run = Run(Returned(ts), Parsed(ts, Len(ts) - 1), Returned(<<>>),
                   Returned(F), xf)

\* a call about to be made: its schema list and the way the imported stages
\* will behave for its input
Init ==
  /\ StrIdle /\ UiIdle
  /\ edits = 0
  /\ input = <<>>
  /\ fieldSchemas \in SchemaLists
  /\ (EarlyRun(env) \/ ValidatedRun(env))
  /\ result = NoResult
  /\ calls = <<>>
  /\ reparsed = NoResult
  /\ inExpr = Null
  /\ inPrior = <<>>
  /\ inErrors = <<>>

\* the call parseSearchInputQuery(input, fieldSchemas)
Parse ==
  /\ result = NoResult
  /\ LET out == ParseSearchInputQuery(fieldSchemas, env) IN
       /\ result' = out.ret
       /\ calls' = out.calls
  /\ UNCHANGED <<edits, input, fieldSchemas, env, reparsed, inExpr, inPrior, inErrors, strVars, uiVars>>

Next == Parse

Spec == Init /\ [][Next]_vars

----------------------------------------------------------------------------
(* Properties of parseSearchInputQuery, checked under Spec *)

Returns == result.type /= "none"

Ran(stage) == \E i \in DOMAIN calls : calls[i] = stage

\* both validators that were called returned, so the merge was computed
Merged ==
  /\ Ran("validateSearchQuery") /\ ~env.validate.throws
  /\ ~(Ran("validateExpressionFields") /\ env.fields.throws)

\* what each validator produced in this call
StructuralList == env.validate.value

SchemaList == IF Ran("validateExpressionFields") THEN env.fields.value ELSE <<>>

\* the merged list the call computed: it is returned unless it was empty
MergedList == IF Ran("transformToExpression") THEN <<>> ELSE result.errors

SharesSpan(f, list) ==
  \E i \in DOMAIN list :
    list[i].position = f.position /\ list[i].length = f.length

AtPosition(list, p) ==
  LET at(e) == e.position = p IN SelectSeq(list, at)

Surviving(structural, schema) ==
  LET free(f) == ~SharesSpan(f, structural) IN SelectSeq(schema, free)

Ascending(list) ==
  \A i, j \in DOMAIN list : i < j => list[i].position <= list[j].position

\* C1: an expression is produced, and transformToExpression is called, only
\* when the validators produced no diagnostic; whenever they produced one the
\* result is a SEARCH_QUERY_ERROR with a null expression and the transformer
\* is not called
C1_ExpressionOnlyWithoutDiagnostics ==
  Returns =>
    /\ (result.type = "SEARCH_QUERY" /\ result.expression /= Null)
         => (Merged /\ StructuralList = <<>> /\ SchemaList = <<>>)
    /\ Ran("transformToExpression")
         => (Merged /\ StructuralList = <<>> /\ SchemaList = <<>>)
    /\ (Merged /\ (StructuralList /= <<>> \/ SchemaList /= <<>>))
         => /\ result.type = "SEARCH_QUERY_ERROR"
            /\ result.expression = Null
            /\ ~Ran("transformToExpression")

C1_Witness ==
  /\ Returns /\ Merged
  /\ StructuralList = <<>> /\ SchemaList /= <<>>
  /\ result.type = "SEARCH_QUERY_ERROR"

\* the value a called stage threw, if one did
Raised ==
  IF env.tokenize.throws THEN <<env.tokenize.error>>
  ELSE IF Ran("parseExpression") /\ env.parse.throws THEN <<env.parse.error>>
  ELSE IF Ran("validateSearchQuery") /\ env.validate.throws
    THEN <<env.validate.error>>
  ELSE IF Ran("validateExpressionFields") /\ env.fields.throws
    THEN <<env.fields.error>>
  ELSE IF Ran("transformToExpression") /\ env.transform.throws
    THEN <<env.transform.error>>
  ELSE <<>>

\* C2: every call returns a SEARCH_QUERY without an errors field, or a
\* SEARCH_QUERY_ERROR with a null expression and a non-empty errors list; an
\* exception raised by any stage is returned as the second outcome
C2_TwoOutcomes ==
  Returns =>
    /\ \/ /\ result.type = "SEARCH_QUERY"
          /\ DOMAIN result = {"type", "expression"}
       \/ /\ result.type = "SEARCH_QUERY_ERROR"
          /\ DOMAIN result = {"type", "expression", "errors"}
          /\ result.expression = Null
          /\ Len(result.errors) > 0
    /\ Raised /= <<>>
         => (result.type = "SEARCH_QUERY_ERROR" /\ result.errors = Raised)

C2_Witness ==
  /\ Returns
  /\ Ran("transformToExpression") /\ env.transform.throws
  /\ result.type = "SEARCH_QUERY_ERROR"

\* C3: the merged list holds every structural entry with its multiplicity and
\* exactly the schema entries whose (position, length) no structural entry
\* shares
C3_MergePrecedence ==
  (Returns /\ Merged) =>
    /\ \A i \in DOMAIN MergedList :
         MergedList[i] \in StructuralErrors \cup SchemaErrors
    /\ \A e \in StructuralErrors :
         Count(MergedList, e) = Count(StructuralList, e)
    /\ \A f \in SchemaErrors :
         Count(MergedList, f) =
           IF SharesSpan(f, StructuralList) THEN 0 ELSE Count(SchemaList, f)

C3_Witness ==
  /\ Returns /\ Merged
  /\ \E i \in DOMAIN SchemaList : SharesSpan(SchemaList[i], StructuralList)
  /\ \E i \in DOMAIN SchemaList : ~SharesSpan(SchemaList[i], StructuralList)
  /\ Len(MergedList) = Len(StructuralList) + 1

\* C4: the merged list is ascending by position, and the entries at one
\* position are the structural ones in emission order followed by the
\* surviving schema ones in emission order
C4_SortedStable ==
  (Returns /\ Merged) =>
    /\ Ascending(MergedList)
    /\ \A p \in 0..MaxSpan :
         AtPosition(MergedList, p) =
           AtPosition(StructuralList, p)
             \o AtPosition(Surviving(StructuralList, SchemaList), p)

C4_Witness ==
  /\ Returns /\ Merged
  /\ ~Ascending(StructuralList \o SchemaList)
  /\ \E i, j \in DOMAIN MergedList :
       /\ i < j
       /\ MergedList[i].position = MergedList[j].position
       /\ MergedList[i].code = "INVALID_FIELD_CHARS"
       /\ MergedList[j].code = "UNKNOWN_FIELD"

\* the parser returned and left a token other than EOF unconsumed
Leftover ==
  /\ Ran("parseExpression") /\ ~env.parse.throws
  /\ env.parse.value.stream.position < Len(env.tokenize.value)

FirstUnconsumed == env.tokenize.value[env.parse.value.stream.position]

NoValidatorRan ==
  ~Ran("validateSearchQuery") /\ ~Ran("validateExpressionFields")

\* C5: a throw of the tokenizer or the parser, and a token left over after
\* parseExpression, each give a SEARCH_QUERY_ERROR with exactly one error;
\* for a leftover it carries the position and length of the first unconsumed
\* token; no validator is called
C5_FailFast ==
  Returns =>
    /\ env.tokenize.throws
         => (result = SearchQueryError(<<env.tokenize.error>>) /\ NoValidatorRan)
    /\ (Ran("parseExpression") /\ env.parse.throws)
         => (result = SearchQueryError(<<env.parse.error>>) /\ NoValidatorRan)
    /\ Leftover
         => /\ result.type = "SEARCH_QUERY_ERROR"
            /\ Len(result.errors) = 1
            /\ result.errors[1].position = FirstUnconsumed.position
            /\ result.errors[1].length = FirstUnconsumed.length
            /\ NoValidatorRan

C5_Witness ==
  /\ Returns /\ Leftover
  /\ FirstUnconsumed.type = "RPAREN"
  /\ Len(result.errors) = 1

\* C8: with an empty schema list the schema validator is not called, the
\* errors are the structural diagnostics sorted by position, and a query
\* without structural diagnostics is accepted
C8_EmptySchemaUnrestricted ==
  (Returns /\ fieldSchemas = <<>> /\ Ran("validateSearchQuery")
     /\ ~env.validate.throws) =>
    /\ ~Ran("validateExpressionFields")
    /\ StructuralList /= <<>> =>
         /\ result.type = "SEARCH_QUERY_ERROR"
         /\ Len(result.errors) = Len(StructuralList)
         /\ \A e \in StructuralErrors :
              Count(result.errors, e) = Count(StructuralList, e)
         /\ Ascending(result.errors)
    /\ StructuralList = <<>> => Ran("transformToExpression")
    /\ (StructuralList = <<>> /\ ~env.transform.throws)
         => result = SearchQuery(env.transform.value)

C8_Witness ==
  /\ Returns /\ fieldSchemas = <<>>
  /\ Ran("validateSearchQuery") /\ ~env.validate.throws
  /\ ~env.fields.throws /\ env.fields.value /= <<>>
  /\ result.type = "SEARCH_QUERY" /\ result.expression /= Null

\* the codes of the error taxonomy
Taxonomy ==
  {"INVALID_FIELD_CHARS", "RESERVED_WORD_AS_FIELD", "INVALID_IN_VALUE",
   "UNKNOWN_FIELD", "TYPE_MISMATCH", "SYNTAX_ERROR"}

IsValidationError(e) ==
  /\ {"message", "code", "position", "length"} \subseteq DOMAIN e
  /\ e.code \in Taxonomy

\* C9: every entry of the errors list of a SEARCH_QUERY_ERROR carries message,
\* code, position and length, the code being one of the taxonomy
C9_ErrorsAreValidationErrors ==
  (Returns /\ result.type = "SEARCH_QUERY_ERROR") =>
    \A i \in DOMAIN result.errors : IsValidationError(result.errors[i])

----------------------------------------------------------------------------
(* Specification SpecIn: validateInExpression applied to IN nodes *)

FieldChars == {"i", "n", "N", "U+0131", "1", "!"}

FieldNames ==
  SeqsUpTo(FieldChars, MaxFieldLen)
    \cup {<<"a", "n", "d">>, <<"A", "N", "D">>, <<"O", "r">>, <<"n", "o", "T">>,
          <<"a", "_", "b">>, <<"a", "-", "1">>, <<"n", "o", "t", "e">>}

InValues == {<<"a">>, <<"a", ",", "b">>, <<",">>, <<"b", "c">>}

InExpressions ==
  {[type |-> "IN", field |-> f, values |-> vs, position |-> p] :
     f \in FieldNames, vs \in SeqsUpTo(InValues, MaxValues), p \in {0, 4}}

\* errors already collected from the nodes visited before this one
PriorErrors ==
  {<<>>,
   <<[message |-> <<"Invalid characters in field name">>,
      code |-> "INVALID_FIELD_CHARS", position |-> 0, length |-> 1]>>}

InitIn ==
  /\ StrIdle /\ UiIdle
  /\ edits = 0
  /\ input = <<>>
  /\ fieldSchemas = <<>>
  /\ env = Run(NotReached, NotReached, NotReached, NotReached, NotReached)
  /\ result = NoResult
  /\ calls = <<>>
  /\ reparsed = NoResult
  /\ inExpr \in InExpressions
  /\ inPrior \in PriorErrors
  /\ inErrors = inPrior

\* the call validateInExpression(inExpr, inErrors)
ValidateIn ==
  /\ calls = <<>>
  /\ inErrors' = ValidateInExpression(inExpr, inErrors)
  /\ calls' = <<"validateInExpression">>
  /\ UNCHANGED <<edits, input, fieldSchemas, env, result, reparsed, inExpr, inPrior, strVars, uiVars>>

NextIn == ValidateIn

SpecIn == InitIn /\ [][NextIn]_vars

(* Properties of validateInExpression, checked under SpecIn *)

Validated == calls = <<"validateInExpression">>

\* the entries this call appended
Appended == SubSeq(inErrors, Len(inPrior) + 1, Len(inErrors))

WithCode(list, code) ==
  LET has(e) == e.code = code IN SelectSeq(list, has)

FieldDiagnostics ==
  LET named(e) == e.code \in {"INVALID_FIELD_CHARS", "RESERVED_WORD_AS_FIELD"}
  IN  SelectSeq(Appended, named)

\* the field is AND, OR, NOT or IN in some letter case
ReservedInAnyCase(field) ==
  \E w \in reservedWords :
    /\ Len(w) = Len(field)
    /\ \A i \in DOMAIN w :
         field[i] = w[i] \/ (IsUpper(w[i]) /\ UpperChar(field[i]) = w[i])

FieldNamePattern(field) ==
  /\ field /= <<>>
  /\ field[1] \in {LowerLetters[i] : i \in 1..26} \cup {UpperLetters[i] : i \in 1..26}
  /\ \A i \in DOMAIN field :
       field[i] \in {LowerLetters[k] : k \in 1..26} \cup {UpperLetters[k] : k \in 1..26}
                      \cup Digits \cup {"_", "-"}

OnField(e) == e.position = inExpr.position /\ e.length = Len(inExpr.field)

\* C10 as stated: at most one field-name diagnostic per IN node, at the node's
\* start and as long as the field; RESERVED_WORD_AS_FIELD exactly for a field
\* that upper-cases to AND/OR/NOT/IN, INVALID_FIELD_CHARS exactly for a field
\* outside ^[A-Za-z][A-Za-z0-9_-]*$, never both
C10_AtMostOneFieldDiagnostic ==
  Validated =>
    /\ Len(FieldDiagnostics) <= 1
    /\ \A i \in DOMAIN FieldDiagnostics : OnField(FieldDiagnostics[i])
    /\ Len(WithCode(Appended, "RESERVED_WORD_AS_FIELD"))
         = (IF ReservedInAnyCase(inExpr.field) THEN 1 ELSE 0)
    /\ Len(WithCode(Appended, "INVALID_FIELD_CHARS"))
         = (IF FieldNamePattern(inExpr.field) THEN 0 ELSE 1)

IsAscii(field) == \A i \in DOMAIN field : field[i] /= "U+0131"

\* C10 as amended: each of the two field-name diagnostics is appended at most
\* once, at the node's start and as long as the field, RESERVED_WORD_AS_FIELD
\* exactly for a field that upper-cases to AND/OR/NOT/IN and
\* INVALID_FIELD_CHARS exactly for a field outside ^[A-Za-z][A-Za-z0-9_-]*$;
\* a field of ASCII characters never gets both, a field that upper-cases to a
\* reserved word through a non-ASCII character gets both
C10_FieldDiagnostics ==
  Validated =>
    /\ SubSeq(inErrors, 1, Len(inPrior)) = inPrior
    /\ \A i \in DOMAIN FieldDiagnostics : OnField(FieldDiagnostics[i])
    /\ Len(WithCode(Appended, "RESERVED_WORD_AS_FIELD"))
         = (IF ReservedInAnyCase(inExpr.field) THEN 1 ELSE 0)
    /\ Len(WithCode(Appended, "INVALID_FIELD_CHARS"))
         = (IF FieldNamePattern(inExpr.field) THEN 0 ELSE 1)
    /\ IsAscii(inExpr.field) => Len(FieldDiagnostics) <= 1
    /\ (~IsAscii(inExpr.field) /\ ReservedInAnyCase(inExpr.field))
         => Len(FieldDiagnostics) = 2

C10_Witness ==
  /\ Validated
  /\ inExpr.field = <<"i", "N">>
  /\ FieldDiagnostics = <<ReservedWordAsField(inExpr)>>

\* the offset of value i (counted from 1) within the values joined by commas:
\* the sum of length + 1 over the values before it
LiteralOffset(values, i) ==
  SumTo([k \in 1..(i - 1) |-> Len(values[k]) + 1], i - 1)

\* the (position, length) spans of the diagnostics a list of values calls for
RECURSIVE InValueSpansFrom(_, _)
InValueSpansFrom(expr, i) ==
  IF i > Len(expr.values) THEN <<>>
  ELSE (IF includes(expr.values[i], ",")
          THEN << <<expr.position + Len(expr.field) + 3
                      + LiteralOffset(expr.values, i),
                    Len(expr.values[i])>> >>
          ELSE <<>>)
       \o InValueSpansFrom(expr, i + 1)

InValueDiagnostics == WithCode(Appended, "INVALID_IN_VALUE")

\* C13: every value of the IN node that contains a comma gets one
\* INVALID_IN_VALUE diagnostic, as long as the value and positioned at the
\* node's start plus the field length plus 3 plus the offset of the value
\* within the comma-joined list, whatever the lengths of the values
C13_InValuePositions ==
  Validated =>
    [i \in DOMAIN InValueDiagnostics |->
       <<InValueDiagnostics[i].position, InValueDiagnostics[i].length>>]
      = InValueSpansFrom(inExpr, 1)

----------------------------------------------------------------------------
(* Specification SpecText: query texts are assembled from fragments, parsed,
   and the expression of an accepted query is serialized and parsed again *)

Quoted(text) == <<"\"">> \o text \o <<"\"">>

Words == <<"b", " ", "c">>

Fragments ==
  {<<"a">>, Quoted(Words), <<"a", "*">>, Quoted(Words \o <<"*">>),
   <<"f", ":", "a">>, <<"f", ":">> \o Quoted(Words), <<"p", ":", "1">>,
   <<"p", ":", ">", "1">>, <<"p", ":", "1", ".", ".", "2">>,
   <<"f", ":", ">">> \o Quoted(Words),
   <<"f", ":", "I", "N", "(", "a", ",">> \o Quoted(Words) \o <<")">>,
   <<"a", "n", "d", ":", "a">>, <<"x", ":", "a">>, <<"1", "f", ":", "a">>,
   <<")">>, <<"\"", "b">>, <<" ">>, <<"\t">>}

Suffixes ==
  {<<"a">>, <<"f", ":">> \o Quoted(Words), <<")">>, <<" ">>, <<"\t">>,
   <<"x", ":", "a">>}

Connectives == {<<>>, <<" ">>, Chars(" AND "), Chars(" OR ")}

TextSchemas ==
  {<<>>,
   <<[name |-> <<"F">>, type |-> "string"], [name |-> <<"p">>, type |-> "number"]>>}

InitText ==
  /\ StrIdle /\ UiIdle
  /\ edits = 0
  /\ input \in Fragments \cup {<<>>}
  /\ fieldSchemas \in TextSchemas
  /\ env = Run(NotReached, NotReached, NotReached, NotReached, NotReached)
  /\ result = NoResult
  /\ calls = <<>>
  /\ reparsed = NoResult
  /\ inExpr = Null
  /\ inPrior = <<>>
  /\ inErrors = <<>>

Edit(text) ==
  /\ result = NoResult
  /\ edits < MaxEdits
  /\ edits' = edits + 1
  /\ input' = text
  /\ UNCHANGED <<fieldSchemas, env, result, calls, reparsed, inExpr, inPrior, inErrors, strVars, uiVars>>

\* the user types on: a connective and another fragment
Extend == \E c \in Connectives, f \in Suffixes : Edit(input \o c \o f)

\* the user negates the query
Negate == Edit(<<"N", "O", "T", " ">> \o input)

\* the user puts the query in parentheses
Group == Edit(<<"(">> \o input \o <<")">>)

\* the call parseSearchInputQuery(input, fieldSchemas)
ParseText ==
  /\ result = NoResult
  /\ \E tokens \in {tokenize(input)} :
       \E parsed \in {parseExpression(createStream(tokens))} :
         \E run \in {StagesOfParse(tokens, parsed, fieldSchemas)} :
           \E out \in {ParseSearchInputQuery(fieldSchemas, run)} :
             /\ env' = run
             /\ result' = out.ret
             /\ calls' = out.calls
  /\ UNCHANGED <<edits, input, fieldSchemas, reparsed, inExpr, inPrior, inErrors, strVars, uiVars>>

\* the call parseSearchInputQuery(stringify(expression), fieldSchemas) on the
\* expression of an accepted query
Reparse ==
  /\ result.type = "SEARCH_QUERY"
  /\ result.expression /= Null
  /\ reparsed = NoResult
  /\ \E tokens \in {tokenize(stringify(result.expression))} :
       \E parsed \in {parseExpression(createStream(tokens))} :
         \E run \in {StagesOfParse(tokens, parsed, fieldSchemas)} :
           reparsed' = ParseSearchInputQuery(fieldSchemas, run).ret
  /\ UNCHANGED <<edits, input, fieldSchemas, env, result, calls, inExpr, inPrior, inErrors, strVars, uiVars>>

NextText == Extend \/ Negate \/ Group \/ ParseText \/ Reparse

SpecText == InitText /\ [][NextText]_vars

(* Properties checked under SpecText *)

\* an expression without the position and length of its nodes
RECURSIVE Shape(_)
Shape(expr) ==
  IF expr.type \in {"AND", "OR"}
    THEN [type |-> expr.type, left |-> Shape(expr.left), right |-> Shape(expr.right)]
  ELSE IF expr.type = "NOT"
    THEN [type |-> "NOT", expression |-> Shape(expr.expression)]
  ELSE IF expr.type = "FIELD_VALUE"
    THEN [type |-> "FIELD_VALUE", field |-> expr.field.value,
          value |-> expr.value.value]
  ELSE IF expr.type = "RANGE"
    THEN [type |-> "RANGE", field |-> expr.field.value, operator |-> expr.operator,
          value |-> expr.value.value,
          value2 |-> IF expr.operator = "BETWEEN" THEN expr.value2.value ELSE <<>>]
  ELSE IF expr.type = "IN"
    THEN [type |-> "IN", field |-> expr.field.value,
          values |-> [i \in DOMAIN expr.values |-> expr.values[i].value]]
  ELSE IF expr.type = "WILDCARD"
    THEN [type |-> "WILDCARD", prefix |-> expr.prefix, quoted |-> expr.quoted]
  ELSE IF expr.type = "SEARCH_TERM"
    THEN [type |-> "SEARCH_TERM", value |-> expr.value]
  ELSE expr

\* C6: the expression of an accepted query, serialized and parsed again, is
\* accepted and gives a structurally equal expression
C6_RoundTrip ==
  reparsed.type /= "none" =>
    /\ reparsed.type = "SEARCH_QUERY"
    /\ Shape(reparsed.expression) = Shape(result.expression)

IsBlank(text) == \A i \in DOMAIN text : IsSpace(text[i])

\* C7: an empty or whitespace-only input gives a SEARCH_QUERY with a null
\* expression and no errors, and only the tokenizer is called
C7_BlankInput ==
  (result.type /= "none" /\ IsBlank(input)) =>
    /\ result = SearchQuery(Null)
    /\ calls = <<"tokenize">>

C7_Witness ==
  /\ result.type = "SEARCH_QUERY"
  /\ Len(input) > 1 /\ IsBlank(input) /\ includes(input, "\t")
  /\ fieldSchemas /= <<>>

----------------------------------------------------------------------------
(* Specification SpecStr: stringify applied to one expression *)

\* the parser pipeline is not running
ParserIdle ==
  /\ edits = 0
  /\ input = <<>>
  /\ fieldSchemas = <<>>
  /\ env = Run(NotReached, NotReached, NotReached, NotReached, NotReached)
  /\ result = NoResult
  /\ calls = <<>>
  /\ reparsed = NoResult
  /\ inExpr = Null
  /\ inPrior = <<>>
  /\ inErrors = <<>>

TermChars == {"a", " ", "\t", "\n"}

TermValues == SeqsUpTo(TermChars, MaxTermLen)

ListValues == {<<"a">>, <<"b", " ", "c">>, <<"b", "\t", "c">>, <<"a", "\n">>}

SearchTerm(value) == [type |-> "SEARCH_TERM", value |-> value]

SearchTerms == {SearchTerm(v) : v \in TermValues}

InLists ==
  {[type |-> "IN", field |-> [value |-> <<"f">>],
    values |-> [i \in DOMAIN vs |-> [value |-> vs[i]]]] :
     vs \in SeqsUpTo(ListValues, MaxValues) \ {<<>>}}

Compounds ==
  {[type |-> "NOT", expression |-> e] : e \in InLists}
    \cup {[type |-> op, left |-> SearchTerm(<<"a", "\t">>), right |-> e] :
             op \in {"AND", "OR"}, e \in InLists}

InitStr ==
  /\ ParserIdle /\ UiIdle
  /\ strExpr \in SearchTerms \cup InLists \cup Compounds
  /\ rendered = <<>>

\* the call stringify(strExpr)
Stringify ==
  /\ rendered = <<>>
  /\ rendered' = <<stringify(strExpr)>>
  /\ UNCHANGED <<parserVars, strExpr, uiVars>>

NextStr == Stringify

SpecStr == InitStr /\ [][NextStr]_vars

(* Properties of stringify, checked under SpecStr *)

HasWhitespace(value) == \E i \in DOMAIN value : IsSpace(value[i])

\* a value in double quotes exactly when it holds a whitespace character
QuotedOnWhitespace(value) ==
  IF HasWhitespace(value) THEN Quoted(value) ELSE value

RECURSIVE JoinWith(_, _, _)
JoinWith(Render(_), values, i) ==
  IF i > Len(values) THEN <<>>
  ELSE (IF i > 1 THEN <<",">> ELSE <<>>)
         \o Render(values[i].value) \o JoinWith(Render, values, i + 1)

AsSearchTerm(value) == stringify(SearchTerm(value))

\* C11: a SEARCH_TERM value and each value of an IN list is put in double
\* quotes exactly when it holds a whitespace character (space, tab, newline)
\* and is emitted verbatim otherwise; a value inside IN(...) is rendered as
\* stringify renders the SEARCH_TERM of that value
C11_QuotingRule ==
  rendered /= <<>> =>
    /\ strExpr.type = "SEARCH_TERM" =>
          rendered[1] = QuotedOnWhitespace(strExpr.value)
    /\ strExpr.type = "IN" =>
          /\ rendered[1] = strExpr.field.value \o Chars(":IN(")
                             \o JoinWith(QuotedOnWhitespace, strExpr.values, 1)
                             \o <<")">>
          /\ rendered[1] = strExpr.field.value \o Chars(":IN(")
                             \o JoinWith(AsSearchTerm, strExpr.values, 1)
                             \o <<")">>

----------------------------------------------------------------------------
(* SearchComponent: the React component around the parser.  Its state is the
   record ui of its useState values; an event handler runs to completion, and
   in the async component the part of handleSearchResult after the await
   runs later, when searchProducts settles *)

searchTypes == {"ilike", "tsvector", "paradedb"}

\* search-query-to-sql.ts: the SQL of an expression under a search type
searchQueryToSql(expr, searchType) ==
  [text |-> <<expr, searchType>>, values |-> <<>>]

\* db-service.ts: the rows searchProducts resolves with
Rows(sql) == <<[id |-> sql.text]>>

\* the error the catch block of handleSearchResult shows
CaughtError(message) == [message |-> message, position |-> 0, length |-> 0]

\* what SearchInputQuery hands to onSearchResult
SubmittedExpressions == {SearchTerm(<<"a">>), SearchTerm(<<"b">>)}

SubmittedErrors ==
  {<<>>,
   <<[message |-> <<"Invalid field">>, code |-> "UNKNOWN_FIELD",
      position |-> 0, length |-> 1]>>}

SubmittedResults ==
  {[expression |-> e, parsedResult |-> p, errors |-> es] :
     e \in SubmittedExpressions \cup {Null}, p \in {<<>>, <<"q">>},
     es \in SubmittedErrors}

\* the useState initial values
InitialState ==
  [expression |-> Null, parsedResult |-> <<>>, sqlQuery |-> Null,
   sqlSearchType |-> "ilike", errors |-> <<>>, showSql |-> TRUE,
   searchResults |-> <<>>]

\* how many handleSearchResult calls were made
Submitted == IF latest = Null THEN 0 ELSE latest.id

InitUi ==
  /\ ParserIdle /\ StrIdle
  /\ component \in {"sync", "async"}
  /\ ui = InitialState
  /\ pending = {}
  /\ latest = Null

\* result.errors.length === 0 && result.expression
IsSearchable(r) == r.errors = <<>> /\ r.expression /= Null

\* setExpression, setParsedResult, setErrors at the top of handleSearchResult
Shown(r) ==
  [ui EXCEPT !.expression = r.expression, !.parsedResult = r.parsedResult,
             !.errors = r.errors]

Call(r, sql, outcome) ==
  [id |-> Submitted + 1, result |-> r, sql |-> sql, outcome |-> outcome]

\* handleSearchResult of the component without a database
HandleSearchResultSync ==
  /\ component = "sync"
  /\ Submitted < MaxCalls
  /\ \E r \in SubmittedResults :
       \E sql \in {searchQueryToSql(r.expression, ui.sqlSearchType)} :
         IF IsSearchable(r)
           THEN /\ ui' = [Shown(r) EXCEPT !.sqlQuery = sql]
                /\ latest' = Call(r, sql, "shown")
           ELSE /\ ui' = [Shown(r) EXCEPT !.sqlQuery = Null]
                /\ latest' = Call(r, Null, "skipped")
  /\ UNCHANGED <<parserVars, strVars, component, pending>>

\* handleSearchResult of the component with a database, up to the await
HandleSearchResultAsync ==
  /\ component = "async"
  /\ Submitted < MaxCalls
  /\ \E r \in SubmittedResults, throws \in BOOLEAN :
       \E sql \in {searchQueryToSql(r.expression, ui.sqlSearchType)} :
         IF IsSearchable(r) /\ ~throws
           THEN /\ ui' = [Shown(r) EXCEPT !.sqlQuery = sql]
                /\ pending' = pending \cup {[id |-> Submitted + 1, sql |-> sql]}
                /\ latest' = Call(r, sql, "pending")
         ELSE IF IsSearchable(r)
           THEN /\ ui' = [Shown(r) EXCEPT
                            !.errors = <<CaughtError("searchQueryToSql")>>,
                            !.sqlQuery = Null, !.searchResults = <<>>]
                /\ pending' = pending
                /\ latest' = Call(r, Null, "failed")
           ELSE /\ ui' = [Shown(r) EXCEPT !.sqlQuery = Null, !.searchResults = <<>>]
                /\ pending' = pending
                /\ latest' = Call(r, Null, "skipped")
  /\ UNCHANGED <<parserVars, strVars, component>>

Settle(p, outcome) ==
  /\ pending' = pending \ {p}
  /\ latest' = IF latest.id = p.id THEN [latest EXCEPT !.outcome = outcome]
               ELSE latest

\* searchProducts resolves: the rest of the try block of some pending call
Resolve ==
  /\ \E p \in pending :
       /\ ui' = [ui EXCEPT !.searchResults = Rows(p.sql)]
       /\ Settle(p, "resolved")
  /\ UNCHANGED <<parserVars, strVars, component>>

\* searchProducts rejects: the catch block of some pending call
Reject ==
  /\ \E p \in pending :
       /\ ui' = [ui EXCEPT !.errors = <<CaughtError("searchProducts")>>,
                           !.sqlQuery = Null, !.searchResults = <<>>]
       /\ Settle(p, "failed")
  /\ UNCHANGED <<parserVars, strVars, component>>

\* the result container is rendered: parsedResult && !errors.length
ResultRendered == ui.parsedResult /= <<>> /\ ui.errors = <<>>

RadioAlwaysRendered == component /= "none"

\* the search-type radios are rendered: inside the result container, under
\* showSql && sqlQuery
RadioRendered == ResultRendered /\ ui.showSql /\ ui.sqlQuery /= Null

\* onChange of a search-type radio
ChangeSearchType ==
  /\ RadioRendered
  /\ \E t \in searchTypes \ {ui.sqlSearchType} :
       ui' = [ui EXCEPT !.sqlSearchType = t,
                        !.sqlQuery = IF ui.expression /= Null
                                       THEN searchQueryToSql(ui.expression, t)
                                       ELSE @]
  /\ UNCHANGED <<parserVars, strVars, component, pending, latest>>

\* onChange of the Show SQL checkbox
ToggleShowSql ==
  /\ ResultRendered
  /\ ui' = [ui EXCEPT !.showSql = ~@]
  /\ UNCHANGED <<parserVars, strVars, component, pending, latest>>

NextUi ==
  \/ HandleSearchResultSync
  \/ HandleSearchResultAsync
  \/ Resolve
  \/ Reject
  \/ ChangeSearchType
  \/ ToggleShowSql

SpecUi == InitUi /\ [][NextUi]_vars

(* Properties of SearchComponent, checked under SpecUi *)

Mounted == component /= "none"

\* sqlQuery is set only beside an empty errors list and an expression
SqlOnlyWithoutErrors ==
  (Mounted /\ ui.sqlQuery /= Null) => (ui.errors = <<>> /\ ui.expression /= Null)

\* a step that is a handleSearchResult call for a result with an error or
\* without an expression leaves sqlQuery null
RejectedResultClearsSql ==
  (latest' /= latest /\ latest'.id = Submitted + 1 /\ ~IsSearchable(latest'.result))
    => ui'.sqlQuery = Null

\* C12: through handleSearchResult calls, search-type changes and Show SQL
\* toggles, sqlQuery is non-null only while errors is empty and expression is
\* non-null, and every handleSearchResult call for a result with an error or
\* a null expression sets sqlQuery to null
C12_SqlOnlyWithoutErrors ==
  [](SqlOnlyWithoutErrors) /\ [][RejectedResultClearsSql]_vars

\* a result with errors arrived after SQL was shown and its search type changed
C12_Witness ==
  /\ Mounted
  /\ Submitted = 2
  /\ ui.errors /= <<>> /\ ui.expression /= Null /\ ui.parsedResult /= <<>>
  /\ ui.sqlSearchType /= "ilike"
  /\ ui.sqlQuery = Null

\* what the component shows for the latest call once its search has settled
ShowsLatest ==
  IF latest.outcome = "resolved"
    THEN /\ ui.errors = latest.result.errors
         /\ ui.searchResults = Rows(latest.sql)
         /\ ui.sqlQuery /= Null
         /\ ui.sqlQuery.text[1] = latest.result.expression
  ELSE IF latest.outcome = "failed"
    THEN /\ Len(ui.errors) = 1
         /\ ui.searchResults = <<>>
         /\ ui.sqlQuery = Null
  ELSE /\ ui.errors = latest.result.errors
       /\ ui.searchResults = <<>>
       /\ ui.sqlQuery = Null

\* C14: in the async component, once no search is in flight the errors, the
\* search results and the SQL shown are those of the most recent
\* handleSearchResult call, whatever the order in which earlier searches
\* settled, and search results are never shown beside errors
C14_LatestResultShown ==
  (component = "async" /\ pending = {} /\ latest /= Null) =>
    /\ ShowsLatest
    /\ ui.searchResults /= <<>> => ui.errors = <<>>

====
